---- MODULE Spec2Model ----
(***************************************************************************)
(* Feeding sequencer of the Auto-Feeding-System                            *)
(* (src/services/feeding_service.py, src/services/feed_pump_service.py,    *)
(* src/app.py).                                                            *)
(*                                                                         *)
(* The service runs on eventlet with monkey patching (src/app.py:1-2):     *)
(* tasks are cooperative and switch only at network calls, name            *)
(* resolution and sleeps.  Each action below is the code between two such  *)
(* switch points.  A call of control_valve is one step: its effect on the  *)
(* node happens at one instant, and it never reads stop_feeding_flag.      *)
(*                                                                         *)
(* Two slips of the source are read as what they are meant to be: the      *)
(* spawn at feeding_service.py:399 names monitor_drain_conditions and      *)
(* starts monitor_dain_conditions (line 178), and line 606 reads           *)
(* current_app.config.get('plant_data', {}).                               *)
(*                                                                         *)
(* Time is counted in polls: every loop of the code sleeps once per        *)
(* iteration, and a timeout is a number of iterations.                     *)
(***************************************************************************)
EXTENDS Integers, Sequences, FiniteSets, TLC

\* ------------------------------------------------------------------ bounds
\* Number of calls of start_feeding_sequence that are explored.
MaxRuns == 2
\* Number of operator calls of stop_feeding_sequence that find a run active.
MaxStops == 1
\* wait_for_valve_off: polls before its timeout (timeout=10, one poll per second).
ValveOffPolls == 2
\* wait_for_sensor: polls of one attempt before its timeout (timeout=600).
SensorPolls == 2
\* monitor_dain_conditions: polls of the sensor retry on a missing flow reading (10 s).
NoneFlowPolls == 1
\* monitor_dain_conditions: max_drain_time and min_flow_check_delay, in polls.
max_drain_time == 1
min_flow_check_delay == 1

\* monitor_feed_mixing / wait_for_full_sensor: polls before its timeout (600 s).
FullSensorPolls == 2
\* flow_reader: the largest pulse count of one window, and the largest volume
\* that is followed, in volume units.
MaxPulses == 2
MaxVolume == 6

\* ------------------------------------------------------- program constants
\* plant settings system_volume and settings['nutrient_concentration'], the
\* values of the mixing example
system_volume == 6
nutrient_concentration == 2
\* CALIBRATION_FACTOR = 28.390575 pulses per gallon, on an integer scale: one
\* volume unit is what one pulse measures at the default factor.
DefaultFactor == 2
\* wait_for_sensor(..., retries=2)
SensorRetries == 2
\* drain_flow_settings defaults, on an integer scale: a reading is 0, 1 or 2.
min_flow_rate == 1
activation_flow_rate == 2

\* settings['additional_plants'], in configured order
additional_plants == <<"A", "B">>
Plants == {additional_plants[i] : i \in 1..Len(additional_plants)}
ValveKinds == {"drain", "fill"}
Valves == Plants \X ValveKinds
NoPlant == "-"
MonitorIds == 1..MaxRuns
\* get_latest_drain_flow_rate(): None (-1) or a rate
FlowReadings == {-1, 0, 1, 2}

VARIABLES
    \* SequencerState (current_app.config and the module globals)
    feeding_sequence_active, current_feeding_phase, current_plant_ip,
    stop_feeding_flag, drain_complete,
    \* start_feeding_sequence: position and locals
    seqPc, seqIdx, runNo, remaining_plants, completed_plants, message,
    waitPolls, sensorInit, sensorAttempt, seqMon,
    \* history: an earlier poll of the current attempt of the fill wait read
    \* the full sensor not triggered
    fillSawOther,
    \* the drain monitors that are alive
    mon,
    \* the nodes: the valves this run turned on and that are still on, and the
    \* remote feeding_in_progress flag
    realValve, progress,
    \* stop_feeding_sequence: position, caller and what it did
    stopPc, stopCaller, stopIdx, stopLog, stops,
    \* monitor_feed_mixing (feed_mixing_service.py): position, locals, the
    \* local relays and the pump, and what its last step commanded
    mixPc, feed_valve_on, fresh_valve_on, pump_on,
    plant_ip, initial_full_sensor_triggered, state_changed, mixPolls,
    relay, mixCmds, mixDoneIn, mixOffIn,
    \* whether a poll of the running wait_for_full_sensor has read the sensor
    \* triggered
    mixSawOther,
    \* the flow meters: total_volume and CALIBRATION_FACTOR of each service,
    \* and calibration_factor of api/feed_flow.py
    total_volume, CALIBRATION_FACTOR, calibration_factor

mixVars == <<mixPc, feed_valve_on, fresh_valve_on, pump_on,
             plant_ip, initial_full_sensor_triggered, state_changed, mixPolls,
             relay, mixCmds, mixDoneIn, mixOffIn, mixSawOther>>
meterVars == <<total_volume, CALIBRATION_FACTOR, calibration_factor>>
seqVars == <<seqPc, seqIdx, runNo, remaining_plants, completed_plants,
             message, waitPolls, sensorInit, sensorAttempt, fillSawOther, seqMon>>
flagVars == <<feeding_sequence_active, current_feeding_phase, current_plant_ip,
              stop_feeding_flag>>
nodeVars == <<realValve, progress>>
stopVars == <<stopPc, stopCaller, stopIdx, stopLog>>
vars == <<feeding_sequence_active, current_feeding_phase, current_plant_ip,
          stop_feeding_flag, drain_complete,
          seqPc, seqIdx, runNo, remaining_plants, completed_plants, message,
          waitPolls, sensorInit, sensorAttempt, fillSawOther, seqMon, mon,
          realValve, progress,
          stopPc, stopCaller, stopIdx, stopLog, stops,
          mixVars, meterVars>>

\* ------------------------------------------------- the mixing regulator
\* the local actuators monitor_feed_mixing commands: relay_ports['feed_water'],
\* relay_ports['fresh_water'] and the feed pump
Components == {"feed", "fresh", "pump"}
\* a command: the component and the action
Cmd(c, action) == <<c, action>>
\* no position of the sequencer: the regulator has not acted yet
NoToken == <<0, "none", NoPlant>>

MixInit ==
    /\ mixPc = "top"
    /\ feed_valve_on = FALSE
    /\ fresh_valve_on = FALSE
    /\ pump_on = FALSE
    /\ plant_ip = NoPlant
    /\ initial_full_sensor_triggered = TRUE
    /\ state_changed = FALSE
    /\ mixPolls = 0
    /\ relay = [c \in Components |-> "off"]
    /\ mixCmds = {}
    /\ mixDoneIn = NoToken
    /\ mixOffIn = NoToken
    /\ mixSawOther = FALSE

\* ------------------------------------------------------- the flow meters
\* fresh_flow_service.py and the drain flow service (src/api/drain_flow.py)
Meters == {"fresh", "drain"}
\* values handed to a set_calibration_factor
FactorValues == -DefaultFactor..DefaultFactor
\* pulse_count of one sampling window
PulseCounts == 0..MaxPulses

MeterInit ==
    /\ total_volume = [m \in Meters |-> 0]
    /\ CALIBRATION_FACTOR = [m \in Meters |-> DefaultFactor]
    /\ calibration_factor = DefaultFactor

\* ----------------------------------------------------------------- helpers
DrainReset == [status |-> FALSE, reason |-> "None", plant |-> NoPlant, run |-> 0]
MonFree == [pc |-> "none", plant |-> NoPlant, run |-> 0, polls |-> 0, low |-> -1]
StopLogReset == [relays |-> "none", pump |-> "none", nodes |-> "ok"]

CurPlant == additional_plants[seqIdx]
\* one entry of the message list: its kind and its plant
Entry(kind, p, why) == <<kind, p>>
\* list.remove of the first occurrence; the list holds each plant at most once
Remove(s, p) == SelectSeq(s, LAMBDA x : x # p)

\* What a read of the registry's valve_relays[label]['status'] can give: the
\* nodes push their status on their own schedule, so the entry is the valve's
\* state of now or of some earlier time.
RegistryStatus == {"on", "off"}

\* The ways one call of control_valve(plant, valve, action) can end, given the
\* cached status it reads (lines 91-96).
\*   unresolved: no command reaches the node (standardize_host_ip fails, or
\*               every POST attempt fails), returns False
\*   skipped   : the cached status equals the action, nothing sent, returns True
\*   success   : the command is sent and the node executes it, returns True
control_valve(cached_status, action) ==
    {"unresolved"} \cup
    (IF cached_status = action THEN {"skipped"} ELSE {"success"})
ValveCall(action) == UNION {control_valve(c, action) : c \in RegistryStatus}
Returned(o) == o \in {"skipped", "success"}
Sent(o) == o = "success"

\* realValve[x] = "on": the last command valve x got in this run is on, and
\* its node has not closed it since
ValveAfter(rv, p, v, action, o) ==
    IF Sent(o) THEN [rv EXCEPT ![<<p, v>>] = action] ELSE rv

\* A node closes a valve by itself: its fill valve when its full sensor
\* triggers (the sequencer waits for that at line 538, sending nothing), and
\* its valves when it handles stop_feeding.  At that point of the exchange the
\* node has done so, or has not.
NodeCloses(rv, p, v, closes) ==
    IF closes THEN [rv EXCEPT ![<<p, v>>] = "off"] ELSE rv

\* requests.post(.../api/settings/feeding_status, {"in_progress": False}):
\* the attempt is recorded whether or not the node answers
PostFalse(pr, p) == [pr EXCEPT ![p] = "posted_false"]

\* ------------------------------------------------------------------- Init
Init ==
    /\ feeding_sequence_active = FALSE
    /\ current_feeding_phase = "idle"
    /\ current_plant_ip = NoPlant
    /\ stop_feeding_flag = FALSE
    /\ drain_complete = DrainReset
    /\ seqPc = "idle"
    /\ seqIdx = 1
    /\ runNo = 0
    /\ remaining_plants = <<>>
    /\ completed_plants = <<>>
    /\ message = <<>>
    /\ waitPolls = 0
    /\ sensorInit = FALSE
    /\ sensorAttempt = 0
    /\ fillSawOther = FALSE
    /\ seqMon = 1
    /\ mon = [i \in MonitorIds |-> MonFree]
    /\ realValve = [x \in Valves |-> "off"]
    /\ progress = [p \in Plants |-> "idle"]
    /\ stopPc = "idle"
    /\ stopCaller = "none"
    /\ stopIdx = 1
    /\ stopLog = StopLogReset
    /\ stops = 0
    /\ MixInit
    /\ MeterInit

\* ------------------------------------------- start_feeding_sequence (steps)
\* `continue` of the for loop over additional_plants
Continue ==
    /\ seqIdx' = seqIdx + 1
    /\ seqPc' = "loop_head"
    /\ waitPolls' = 0
    /\ sensorInit' = FALSE
    /\ sensorAttempt' = 0
    /\ fillSawOther' = FALSE

\* start_feeding_sequence, up to the for loop.  A new run is started when no
\* run is under way and no call of stop_feeding_sequence is still executing.
StartFeeding ==
    /\ seqPc \in {"idle", "done", "raised"}
    /\ UNCHANGED <<stops, mixVars, meterVars>>
    /\ stopPc \notin {"local", "nodes"}
    /\ runNo < MaxRuns
    /\ runNo' = runNo + 1
    /\ drain_complete' = DrainReset
    /\ stop_feeding_flag' = FALSE
    /\ feeding_sequence_active' = TRUE
    /\ current_feeding_phase' = "idle"
    /\ current_plant_ip' = NoPlant
    /\ remaining_plants' = additional_plants
    /\ completed_plants' = <<>>
    /\ message' = <<>>
    /\ seqIdx' = 1
    /\ seqPc' = "loop_head"
    /\ waitPolls' = 0
    /\ sensorInit' = FALSE
    /\ sensorAttempt' = 0
    /\ fillSawOther' = FALSE
    /\ progress' = [p \in Plants |-> "idle"]
    /\ stopPc' = "idle"
    /\ stopCaller' = "none"
    /\ stopIdx' = 1
    /\ stopLog' = StopLogReset
    /\ realValve' = [x \in Valves |-> "off"]
    /\ UNCHANGED <<seqMon, mon>>

SeqLoopHead_IgnoresStop ==
    /\ seqPc = "loop_head"
    /\ UNCHANGED <<stops, mixVars, meterVars>>
    /\ seqPc' = IF seqIdx > Len(additional_plants) THEN "finish" ELSE "resolve"
    /\ UNCHANGED <<seqIdx, runNo, remaining_plants, completed_plants,
                   message, waitPolls, sensorInit, sensorAttempt, fillSawOther, seqMon>>
    /\ UNCHANGED <<flagVars, drain_complete, mon, nodeVars, stopVars>>

\* lines 313-322: next plant, or the end of the list; the stop check
SeqLoopHead ==
    /\ seqPc = "loop_head"
    /\ UNCHANGED <<stops, mixVars, meterVars>>
    /\ seqPc' = IF seqIdx > Len(additional_plants) \/ stop_feeding_flag
                THEN "finish" ELSE "resolve"
    /\ UNCHANGED <<seqIdx, runNo, remaining_plants, completed_plants,
                   message, waitPolls, sensorInit, sensorAttempt, fillSawOther, seqMon>>
    /\ UNCHANGED <<flagVars, drain_complete, mon, nodeVars, stopVars>>

\* lines 324-342: standardize_host_ip and validate_feeding_allowed have
\* answered; the phase is published.  resolved is the answer of
\* standardize_host_ip, allowed that of validate_feeding_allowed (the node is
\* in plant_data and its settings allow remote feeding); is_online is the
\* node's is_online entry of plant_data (app.py:139, 149), which neither reads.
SeqResolveOn(resolved, allowed, is_online) ==
    /\ seqPc = "resolve"
    /\ UNCHANGED <<stops, mixVars, meterVars>>
    /\   IF ~resolved
         THEN /\ message' = Append(message, Entry("Failed", CurPlant, "Resolution error"))
              /\ remaining_plants' = Remove(remaining_plants, CurPlant)
              /\ Continue
              /\ UNCHANGED <<current_feeding_phase, current_plant_ip>>
         ELSE IF ~allowed
         THEN /\ message' = Append(message, Entry("Skipped", CurPlant, "Not allowed"))
              /\ remaining_plants' = Remove(remaining_plants, CurPlant)
              /\ Continue
              /\ UNCHANGED <<current_feeding_phase, current_plant_ip>>
         ELSE /\ current_feeding_phase' = "drain"
              /\ current_plant_ip' = CurPlant
              /\ seqPc' = "set_progress"
              /\ UNCHANGED <<message, remaining_plants, seqIdx, waitPolls,
                             sensorInit, sensorAttempt, fillSawOther>>
    /\ UNCHANGED <<runNo, completed_plants, seqMon>>
    /\ UNCHANGED <<feeding_sequence_active, stop_feeding_flag, drain_complete,
                   mon, nodeVars, stopVars>>

SeqResolve ==
    \E resolved \in BOOLEAN, allowed \in BOOLEAN, is_online \in BOOLEAN :
      SeqResolveOn(resolved, allowed, is_online)

\* lines 344-382: the POST of in_progress=True has answered; valve_info is read
SeqSetProgress ==
    /\ seqPc = "set_progress"
    /\ UNCHANGED <<stops, mixVars, meterVars>>
    /\ \E ok \in BOOLEAN, hasDrain \in BOOLEAN :
         IF ~ok
         THEN /\ message' = Append(message, Entry("Failed", CurPlant, "Set progress error"))
              /\ remaining_plants' = Remove(remaining_plants, CurPlant)
              /\ Continue
              /\ UNCHANGED progress
         ELSE IF ~hasDrain
         THEN /\ message' = Append(message, Entry("Failed", CurPlant, "No drain valve"))
              /\ remaining_plants' = Remove(remaining_plants, CurPlant)
              /\ progress' = PostFalse(progress, CurPlant)
              /\ Continue
         ELSE /\ progress' = [progress EXCEPT ![CurPlant] = "true"]
              /\ seqPc' = "drain_on"
              /\ UNCHANGED <<message, remaining_plants, seqIdx, waitPolls,
                             sensorInit, sensorAttempt, fillSawOther>>
    /\ UNCHANGED <<runNo, completed_plants, seqMon>>
    /\ UNCHANGED <<flagVars, drain_complete, mon, realValve,
                   stopVars>>

\* the monitor slot taken by eventlet.spawn: the lowest one not alive
FreeMonitor == CHOOSE i \in MonitorIds :
                 /\ mon[i].pc = "none"
                 /\ \A j \in MonitorIds : mon[j].pc = "none" => i <= j

\* lines 384-399: control_valve(drain, 'on'), then the monitor is spawned
SeqDrainOn ==
    /\ seqPc = "drain_on"
    /\ UNCHANGED <<stops, mixVars, meterVars>>
    /\ \E i \in MonitorIds : mon[i].pc = "none"
    /\ \E o \in ValveCall("on") :
         /\ realValve' = ValveAfter(realValve, CurPlant, "drain", "on", o)
         /\ IF ~Returned(o)
            THEN /\ message' = Append(message, Entry("Failed", CurPlant, "Drain valve on error"))
                 /\ remaining_plants' = Remove(remaining_plants, CurPlant)
                 /\ progress' = PostFalse(progress, CurPlant)
                 /\ Continue
                 /\ UNCHANGED <<mon, seqMon>>
            ELSE /\ mon' = [mon EXCEPT ![FreeMonitor] =
                               [pc |-> "delay", plant |-> CurPlant, run |-> runNo,
                                polls |-> 0, low |-> -1]]
                 /\ seqMon' = FreeMonitor
                 /\ seqPc' = "drain_wait"
                 /\ UNCHANGED <<message, remaining_plants, progress, seqIdx,
                                waitPolls, sensorInit, sensorAttempt, fillSawOther>>
    /\ UNCHANGED <<runNo, completed_plants>>
    /\ UNCHANGED <<flagVars, drain_complete, stopVars>>

\* lines 401-416 and 420-438: the head of the drain wait loop.  With the result
\* already true the loop is left and the result is consumed without a switch;
\* the stop branch makes network calls before line 420 reads the result.
SeqDrainWait ==
    /\ seqPc = "drain_wait"
    /\ UNCHANGED <<stops, mixVars, meterVars>>
    /\ IF drain_complete.status
       THEN /\ drain_complete' = DrainReset
            /\ seqPc' = "drain_confirm"
            /\ UNCHANGED <<message, remaining_plants, progress, realValve>>
       ELSE IF stop_feeding_flag
       THEN \E o \in ValveCall("off") :
              /\ realValve' = ValveAfter(realValve, CurPlant, "drain", "off", o)
              /\ message' = Append(message, Entry("Stopped", CurPlant, "Interrupted during drain"))
              /\ progress' = PostFalse(progress, CurPlant)
              /\ remaining_plants' = Remove(remaining_plants, CurPlant)
              /\ seqPc' = "drain_eval"
              /\ UNCHANGED drain_complete
       ELSE /\ seqPc' = "drain_sleep"
            /\ UNCHANGED <<message, remaining_plants, progress, realValve,
                           drain_complete>>
    /\ UNCHANGED <<seqIdx, runNo, completed_plants, waitPolls,
                   sensorInit, sensorAttempt, fillSawOther, seqMon>>
    /\ UNCHANGED <<flagVars, mon, stopVars>>

\* lines 417-418: time.sleep(1); drain_monitor_thread.wait() returns when the
\* monitor spawned for this plant has ended
SeqDrainSleep ==
    /\ seqPc = "drain_sleep"
    /\ UNCHANGED <<stops, mixVars, meterVars>>
    /\ mon[seqMon].pc = "none"
    /\ seqPc' = "drain_wait"
    /\ UNCHANGED <<seqIdx, runNo, remaining_plants, completed_plants,
                   message, waitPolls, sensorInit, sensorAttempt, fillSawOther, seqMon>>
    /\ UNCHANGED <<flagVars, drain_complete, mon, nodeVars, stopVars>>

\* lines 420-438 after the stop branch: the drain result is read
SeqDrainEval ==
    /\ seqPc = "drain_eval"
    /\ UNCHANGED <<stops, mixVars, meterVars>>
    /\ IF drain_complete.status
       THEN /\ drain_complete' = DrainReset
            /\ seqPc' = "drain_confirm"
            /\ waitPolls' = 0
            /\ UNCHANGED <<message, remaining_plants, progress, realValve,
                           seqIdx, sensorInit, sensorAttempt, fillSawOther>>
       ELSE \E o \in ValveCall("off") :
              /\ realValve' = ValveAfter(realValve, CurPlant, "drain", "off", o)
              /\ message' = Append(message, Entry("Failed", CurPlant, "Drain error"))
              /\ remaining_plants' = Remove(remaining_plants, CurPlant)
              /\ progress' = PostFalse(progress, CurPlant)
              /\ Continue
              /\ UNCHANGED drain_complete
    /\ UNCHANGED <<runNo, completed_plants, seqMon>>
    /\ UNCHANGED <<flagVars, mon, stopVars>>

wait_for_valve_off_Forever(status) ==
    IF stop_feeding_flag THEN "false"
    ELSE IF status = "off" THEN "true"
    ELSE "again"

\* wait_for_valve_off (lines 119-142), one iteration of its loop; the
\* resolution of the valve address precedes the first one.  The result is
\* "true", "false" or "again" (time.sleep(1), then the next iteration).
wait_for_valve_off(status) ==
    IF stop_feeding_flag THEN "false"
    ELSE IF status = "off" THEN "true"
    ELSE IF waitPolls + 1 >= ValveOffPolls THEN "false"
    ELSE "again"
ValveOffResults ==
    {wait_for_valve_off(s) : s \in RegistryStatus}
        \cup (IF waitPolls = 0 THEN {"false"} ELSE {})

\* lines 440-474: the drain valve is confirmed off, the fill phase is published
SeqDrainConfirm ==
    /\ seqPc = "drain_confirm"
    /\ UNCHANGED <<stops, mixVars, meterVars>>
    /\ \E r \in ValveOffResults, hasFill \in BOOLEAN :
         CASE r = "again" ->
                /\ waitPolls' = waitPolls + 1
                /\ UNCHANGED <<seqPc, seqIdx, message, remaining_plants, progress,
                               sensorInit, sensorAttempt, fillSawOther,
                               current_feeding_phase, current_plant_ip>>
           [] r = "false" ->
                /\ message' = Append(message, Entry("Failed", CurPlant, "Drain valve not off"))
                /\ remaining_plants' = Remove(remaining_plants, CurPlant)
                /\ progress' = PostFalse(progress, CurPlant)
                /\ Continue
                /\ UNCHANGED <<current_feeding_phase, current_plant_ip>>
           [] r = "true" ->
                /\ current_feeding_phase' = "fill"
                /\ current_plant_ip' = CurPlant
                /\ IF ~hasFill
                   THEN /\ message' = Append(message, Entry("Failed", CurPlant, "No fill valve"))
                        /\ remaining_plants' = Remove(remaining_plants, CurPlant)
                        /\ progress' = PostFalse(progress, CurPlant)
                        /\ Continue
                   ELSE /\ seqPc' = "fill_on"
                        /\ waitPolls' = 0
                        /\ UNCHANGED <<message, remaining_plants, progress, seqIdx,
                                       sensorInit, sensorAttempt, fillSawOther>>
    /\ UNCHANGED <<runNo, completed_plants, seqMon>>
    /\ UNCHANGED <<feeding_sequence_active, stop_feeding_flag, drain_complete,
                   mon, realValve, stopVars>>

\* lines 476-506 and 146-150: control_valve(fill, 'on'); without a full sensor
\* in the settings the valve is turned off again; else wait_for_sensor reads
\* the initial state of the full sensor
SeqFillOn ==
    /\ seqPc = "fill_on"
    /\ UNCHANGED <<stops, mixVars, meterVars>>
    /\ \E o \in ValveCall("on"), full_sensor \in BOOLEAN, initial_triggered \in BOOLEAN :
         IF ~Returned(o)
         THEN /\ realValve' = ValveAfter(realValve, CurPlant, "fill", "on", o)
              /\ message' = Append(message, Entry("Failed", CurPlant, "Fill valve on error"))
              /\ remaining_plants' = Remove(remaining_plants, CurPlant)
              /\ progress' = PostFalse(progress, CurPlant)
              /\ Continue
         ELSE IF ~full_sensor
         THEN \E off \in ValveCall("off") :
                /\ realValve' = ValveAfter(ValveAfter(realValve, CurPlant, "fill", "on", o),
                                           CurPlant, "fill", "off", off)
                /\ message' = Append(message, Entry("Failed", CurPlant, "No Full sensor"))
                /\ remaining_plants' = Remove(remaining_plants, CurPlant)
                /\ progress' = PostFalse(progress, CurPlant)
                /\ Continue
         ELSE /\ realValve' = ValveAfter(realValve, CurPlant, "fill", "on", o)
              /\ seqPc' = "fill_wait"
              /\ sensorInit' = initial_triggered
              /\ sensorAttempt' = 0
              /\ fillSawOther' = FALSE
              /\ waitPolls' = 0
              /\ UNCHANGED <<message, remaining_plants, progress, seqIdx>>
    /\ UNCHANGED <<runNo, completed_plants, seqMon>>
    /\ UNCHANGED <<flagVars, drain_complete, mon, stopVars>>

wait_for_sensor_AnyMatch(current_triggered, expected_triggered) ==
    IF stop_feeding_flag THEN "false"
    ELSE IF current_triggered = expected_triggered
    THEN "true"
    ELSE IF waitPolls + 1 < SensorPolls THEN "again"
    ELSE IF sensorAttempt + 1 < SensorRetries THEN "retry"
    ELSE "false"

wait_for_sensor_RetriesOn(current_triggered, expected_triggered) ==
    IF stop_feeding_flag THEN "false"
    ELSE IF current_triggered = expected_triggered /\ current_triggered # sensorInit
    THEN "true"
    ELSE IF waitPolls + 1 < SensorPolls THEN "again"
    ELSE "retry"

\* wait_for_sensor (lines 152-176), one iteration of its inner loop, reading
\* current_triggered: "true", "false", "again" (sleep 1 s) or "retry" (the
\* attempt timed out, sleep 5 s, next attempt)
wait_for_sensor(current_triggered, expected_triggered) ==
    IF stop_feeding_flag THEN "false"
    ELSE IF current_triggered = expected_triggered /\ current_triggered # sensorInit
    THEN "true"
    ELSE IF waitPolls + 1 < SensorPolls THEN "again"
    ELSE IF sensorAttempt + 1 < SensorRetries THEN "retry"
    ELSE "false"

\* line 507: the wait for the full sensor, one iteration on the reading
\* current_triggered
SeqFillWaitOn(current_triggered) ==
    /\ seqPc = "fill_wait"
    /\ UNCHANGED <<stops, mixVars, meterVars>>
    /\ \E closes \in BOOLEAN :
         LET r == wait_for_sensor(current_triggered, TRUE) IN
         /\ closes => current_triggered /\ realValve[<<CurPlant, "fill">>] = "on"
         /\ realValve' = NodeCloses(realValve, CurPlant, "fill", closes)
         /\ seqPc' = CASE r = "true" -> "fill_confirm"
                       [] r = "false" -> "fill_fail"
                       [] OTHER -> "fill_wait"
         /\ waitPolls' = IF r = "again" THEN waitPolls + 1 ELSE 0
         /\ sensorAttempt' = CASE r = "retry" -> sensorAttempt + 1
                               [] r = "again" -> sensorAttempt
                               [] OTHER -> 0
         /\ sensorInit' = IF r \in {"again", "retry"} THEN sensorInit ELSE FALSE
         /\ fillSawOther' = IF r = "again"
                             THEN fillSawOther \/ ~current_triggered
                             ELSE FALSE
    /\ UNCHANGED <<seqIdx, runNo, remaining_plants, completed_plants,
                   message, seqMon>>
    /\ UNCHANGED <<flagVars, drain_complete, mon, progress, stopVars>>

SeqFillWait == \E current_triggered \in BOOLEAN : SeqFillWaitOn(current_triggered)

\* line 508: the wait failed, control_valve(fill, 'off') ends as o
SeqFillFailOn(o) ==
    /\ seqPc = "fill_fail"
    /\ UNCHANGED <<stops, mixVars, meterVars>>
    /\ realValve' = ValveAfter(realValve, CurPlant, "fill", "off", o)
    /\ seqPc' = "fill_fail_eval"
    /\ UNCHANGED <<seqIdx, runNo, remaining_plants, completed_plants,
                   message, waitPolls, sensorInit, sensorAttempt, fillSawOther, seqMon>>
    /\ UNCHANGED <<flagVars, drain_complete, mon, progress, stopVars>>

SeqCallsStop_Continues(pcInside, after, idle) ==
    /\ seqPc' = "loop_head"
    /\ UNCHANGED <<flagVars, stopVars>>

\* The sequencer's own call of stop_feeding_sequence (lines 520 and 576), up
\* to its first network call: lines 598-604.  With the run no longer active
\* the call returns at once.
SeqCallsStop(pcInside, after, idle) ==
    IF feeding_sequence_active
    THEN /\ stop_feeding_flag' = TRUE
         /\ feeding_sequence_active' = FALSE
         /\ current_feeding_phase' = "idle"
         /\ current_plant_ip' = NoPlant
         /\ stopPc' = "local"
         /\ stopCaller' = "seq"
         /\ stopIdx' = 1
         /\ stopLog' = StopLogReset
         /\ seqPc' = pcInside
    ELSE /\ seqPc' = after
         /\ current_feeding_phase' = IF idle THEN "idle" ELSE current_feeding_phase
         /\ current_plant_ip' = IF idle THEN NoPlant ELSE current_plant_ip
         /\ UNCHANGED <<stop_feeding_flag, feeding_sequence_active, stopVars>>

SeqFillFail == \E o \in ValveCall("off") : SeqFillFailOn(o)

SeqFillFailEval_NoStopCheck ==
    /\ seqPc = "fill_fail_eval"
    /\ UNCHANGED <<stops, mixVars, meterVars>>
    /\ progress' = PostFalse(progress, CurPlant)
    /\ message' = Append(message, Entry("Failed", CurPlant, "Fill timeout or error"))
    /\ remaining_plants' = Remove(remaining_plants, CurPlant)
    /\ seqIdx' = seqIdx + 1
    /\ seqPc' = "loop_head"
    /\ UNCHANGED <<flagVars, stopVars>>
    /\ UNCHANGED <<runNo, completed_plants, waitPolls, sensorInit,
                   sensorAttempt, fillSawOther, seqMon>>
    /\ UNCHANGED <<drain_complete, mon, realValve>>

\* lines 509-532: stopped or failed during the fill
SeqFillFailEval ==
    /\ seqPc = "fill_fail_eval"
    /\ UNCHANGED <<stops, mixVars, meterVars>>
    /\ progress' = PostFalse(progress, CurPlant)
    /\ IF stop_feeding_flag
       THEN /\ message' = Append(message, Entry("Stopped", CurPlant, "Interrupted during filling"))
            /\ SeqCallsStop("stop_call_fill", "loop_head", FALSE)
            /\ seqIdx' = seqIdx + 1
            /\ UNCHANGED remaining_plants
       ELSE /\ message' = Append(message, Entry("Failed", CurPlant, "Fill timeout or error"))
            /\ remaining_plants' = Remove(remaining_plants, CurPlant)
            /\ seqIdx' = seqIdx + 1
            /\ seqPc' = "loop_head"
            /\ UNCHANGED <<flagVars, stopVars>>
    /\ UNCHANGED <<runNo, completed_plants, waitPolls, sensorInit,
                   sensorAttempt, fillSawOther, seqMon>>
    /\ UNCHANGED <<drain_complete, mon, realValve>>

\* lines 539-552: the fill valve was not confirmed off; control_valve(fill,
\* 'off') ends as o, the node is failed and the loop continues
SeqFillNotOff(o) ==
    /\ realValve' = ValveAfter(realValve, CurPlant, "fill", "off", o)
    /\ message' = Append(message, Entry("Failed", CurPlant, "Fill valve not turned off"))
    /\ remaining_plants' = Remove(remaining_plants, CurPlant)
    /\ progress' = PostFalse(progress, CurPlant)
    /\ seqIdx' = seqIdx + 1
    /\ seqPc' = "loop_head"
    /\ waitPolls' = 0
    /\ UNCHANGED <<completed_plants, flagVars, stopVars>>

\* lines 534-577: the fill valve is confirmed off, the plant is completed and
\* the feed level is read
SeqFillConfirm ==
    /\ seqPc = "fill_confirm"
    /\ UNCHANGED <<stops, mixVars, meterVars>>
    /\ \E r \in ValveOffResults :
         CASE r = "again" ->
                /\ waitPolls' = waitPolls + 1
                /\ UNCHANGED <<seqPc, seqIdx, message, remaining_plants,
                               completed_plants, progress, realValve,
                               flagVars, stopVars>>
           [] r = "false" -> \E o \in ValveCall("off") : SeqFillNotOff(o)
           [] r = "true" ->
                /\ completed_plants' = Append(completed_plants, CurPlant)
                /\ remaining_plants' = Remove(remaining_plants, CurPlant)
                /\ waitPolls' = 0
                /\ seqIdx' = seqIdx + 1
                /\ UNCHANGED <<progress, realValve>>
                /\ \E use_feed \in BOOLEAN, feed_level \in {"Empty", "Full"} :
                     IF use_feed /\ feed_level = "Empty"
                     THEN /\ message' = Append(message,
                                 Entry("Stopped after", CurPlant, "Feed reservoir empty"))
                          /\ SeqCallsStop("stop_call_level", "finish", TRUE)
                     ELSE /\ current_feeding_phase' = "idle"
                          /\ current_plant_ip' = NoPlant
                          /\ seqPc' = "loop_head"
                          /\ UNCHANGED <<message, feeding_sequence_active,
                                         stop_feeding_flag, stopVars>>
    /\ UNCHANGED <<runNo, sensorInit, sensorAttempt, fillSawOther, seqMon>>
    /\ UNCHANGED <<drain_complete, mon>>

\* the sequencer's call of stop_feeding_sequence has ended: it returned, or
\* its exception leaves start_feeding_sequence
SeqStopReturns ==
    /\ seqPc \in {"stop_call_fill", "stop_call_level"}
    /\ UNCHANGED <<stops, mixVars, meterVars>>
    /\ stopCaller = "seq"
    /\ stopPc \in {"stopped", "raised"}
    /\ seqPc' = IF stopPc = "raised" THEN "raised"
                ELSE IF seqPc = "stop_call_fill" THEN "loop_head" ELSE "finish"
    /\ stopCaller' = "none"
    /\ UNCHANGED <<seqIdx, runNo, remaining_plants, completed_plants,
                   message, waitPolls, sensorInit, sensorAttempt, fillSawOther, seqMon>>
    /\ UNCHANGED <<flagVars, drain_complete, mon, nodeVars, stopPc, stopIdx, stopLog>>

\* lines 579-593: the end of the run
SeqFinish ==
    /\ seqPc = "finish"
    /\ UNCHANGED <<stops, mixVars, meterVars>>
    /\ feeding_sequence_active' = FALSE
    /\ current_feeding_phase' = "idle"
    /\ current_plant_ip' = NoPlant
    /\ seqPc' = "done"
    /\ message' = IF message = <<>>
                  THEN <<Entry("None", NoPlant, "No eligible plants processed")>>
                  ELSE message
    /\ UNCHANGED <<seqIdx, runNo, remaining_plants, completed_plants,
                   waitPolls, sensorInit, sensorAttempt, fillSawOther, seqMon>>
    /\ UNCHANGED <<stop_feeding_flag, drain_complete, mon, nodeVars, stopVars>>

\* ------------------------------------------------ monitor_dain_conditions
MonEnds_NoResult(i, status, reason) ==
    /\ drain_complete' = drain_complete
    /\ mon' = [mon EXCEPT ![i] = MonFree]

\* the monitor writes drain_complete['status'] and ['reason'] and ends
MonEnds(i, status, reason) ==
    /\ drain_complete' = [status |-> status, reason |-> reason,
                          plant |-> mon[i].plant, run |-> mon[i].run]
    /\ mon' = [mon EXCEPT ![i] = MonFree]

\* control_valve(plant, drain, 'off') by monitor i
MonValveOff(i, o) ==
    /\ realValve' = ValveAfter(realValve, mon[i].plant, "drain", "off", o)

\* the empty sensor read triggered (lines 200-208 and 237-245)
MonSensorTriggered(i) ==
    \E o \in ValveCall("off") :
      /\ MonValveOff(i, o)
      /\ IF Returned(o) THEN MonEnds(i, TRUE, "sensor_triggered")
                        ELSE MonEnds(i, FALSE, "valve_off_failed")

MonOutcome_KeepsRunning(i, status, reason) ==
    \E o \in ValveCall("off") :
      /\ MonValveOff(i, o)
      /\ drain_complete' = [status |-> status, reason |-> reason,
                            plant |-> mon[i].plant, run |-> mon[i].run]
      /\ mon' = mon

\* an outcome whose control_valve result is not looked at
MonOutcome(i, status, reason) ==
    \E o \in ValveCall("off") :
      /\ MonValveOff(i, o)
      /\ MonEnds(i, status, reason)

\* lines 187-226: after eventlet.sleep(activation_delay), the activation check
\* on the reading initial_flow
MonActivationOn(i, initial_flow) ==
    /\ mon[i].pc = "delay"
    /\ UNCHANGED <<stops, mixVars, meterVars>>
    /\ IF initial_flow = -1
       THEN /\ mon' = [mon EXCEPT ![i].pc = "none_wait", ![i].polls = 0]
            /\ UNCHANGED <<drain_complete, realValve>>
       ELSE IF initial_flow < activation_flow_rate
       THEN MonOutcome(i, FALSE, "no_activation_flow")
       ELSE /\ mon' = [mon EXCEPT ![i].pc = "loop", ![i].polls = 0, ![i].low = -1]
            /\ UNCHANGED <<drain_complete, realValve>>
    /\ UNCHANGED <<flagVars, seqVars, progress, stopVars>>

MonActivation(i) == \E initial_flow \in FlowReadings : MonActivationOn(i, initial_flow)

\* lines 192-215: no flow reading; the empty sensor is polled for up to 10 s
MonNoneWait(i) ==
    /\ mon[i].pc = "none_wait"
    /\ UNCHANGED <<stops, mixVars, meterVars>>
    /\ \E empty_triggered \in BOOLEAN :
         IF empty_triggered
         THEN MonSensorTriggered(i)
         ELSE IF mon[i].polls + 1 >= NoneFlowPolls
         THEN MonOutcome(i, FALSE, "no_flow")
         ELSE /\ mon' = [mon EXCEPT ![i].polls = @ + 1]
              /\ UNCHANGED <<drain_complete, realValve>>
    /\ UNCHANGED <<flagVars, seqVars, progress, stopVars>>

TimedOut_Never(elapsed) == FALSE

\* line 258: elapsed > max_drain_time, the clock starting at line 226 after the
\* activation check
TimedOut(elapsed) == elapsed > max_drain_time

LowFlowElapsed_Never(low_flow_duration) == FALSE

\* line 275: low_flow_duration >= min_flow_check_delay
LowFlowElapsed(low_flow_duration) == low_flow_duration >= min_flow_check_delay

\* lines 230-287: one iteration of the monitoring loop, on the readings
\* empty_triggered and current_flow
MonLoopOn(i, empty_triggered, current_flow) ==
    /\ mon[i].pc = "loop"
    /\ UNCHANGED <<stops, mixVars, meterVars>>
    /\ LET effective_flow == IF current_flow = -1 THEN 0 ELSE current_flow
           low_flow_duration == IF mon[i].low = -1 THEN 0 ELSE mon[i].low
       IN
       IF empty_triggered
       THEN MonSensorTriggered(i)
       ELSE IF stop_feeding_flag
       THEN MonOutcome(i, FALSE, "interrupted")
       ELSE IF TimedOut(mon[i].polls)
       THEN MonOutcome(i, TRUE, "timeout")
       ELSE IF effective_flow < min_flow_rate
       THEN IF LowFlowElapsed(low_flow_duration)
            THEN MonOutcome(i, TRUE, "low_flow")
            ELSE /\ mon' = [mon EXCEPT ![i].polls = @ + 1,
                                       ![i].low = low_flow_duration + 1]
                 /\ UNCHANGED <<drain_complete, realValve>>
       ELSE /\ mon' = [mon EXCEPT ![i].polls = @ + 1, ![i].low = -1]
            /\ UNCHANGED <<drain_complete, realValve>>
    /\ UNCHANGED <<flagVars, seqVars, progress, stopVars>>

MonLoop(i) ==
    \E empty_triggered \in BOOLEAN, current_flow \in FlowReadings :
      MonLoopOn(i, empty_triggered, current_flow)

\* ------------------------------------------------- stop_feeding_sequence
\* lines 595-604 and 687-689, called by the operator
StopCall ==
    /\ UNCHANGED <<mixVars, meterVars>>
    /\ stopPc \notin {"local", "nodes"}
    /\ stopCaller # "seq"
    /\ runNo > 0
    /\ IF feeding_sequence_active
       THEN /\ stops < MaxStops
            /\ stops' = stops + 1
            /\ stop_feeding_flag' = TRUE
            /\ feeding_sequence_active' = FALSE
            /\ current_feeding_phase' = "idle"
            /\ current_plant_ip' = NoPlant
            /\ stopPc' = "local"
            /\ stopCaller' = "op"
            /\ stopIdx' = 1
            /\ stopLog' = StopLogReset
       ELSE UNCHANGED <<flagVars, stopVars, stops>>
    /\ UNCHANGED <<drain_complete, seqVars, mon, nodeVars>>

control_feed_pump_NoCommand(feed_pump) == IF feed_pump = "io" THEN "none" ELSE "raised"

\* control_feed_pump(state=0) of feed_pump_service.py as stop_feeding_sequence
\* calls it: pump_type keeps its default 'io' and io_number comes from the
\* settings; without one it raises ValueError (lines 16-25).
control_feed_pump(feed_pump) == IF feed_pump = "io" THEN "off" ELSE "raised"

\* lines 605-644: the local relays and the feed pump.  The settings are read
\* here: each relay port that is configured gets control_local_relay(port,
\* 'off'), whose failures are caught (relays = "off": every configured port got
\* the command), and the feed pump entry is "io" with an io_number, "shelly"
\* with an ip, or none.
StopLocal ==
    /\ stopPc = "local"
    /\ UNCHANGED <<stops, mixVars, meterVars>>
    /\ \E feed_pump \in {"io", "shelly", "none"} :
         /\ stopLog' = [stopLog EXCEPT !.relays = "off",
                                       !.pump = control_feed_pump(feed_pump)]
         /\ stopPc' = IF control_feed_pump(feed_pump) = "raised" THEN "raised" ELSE "nodes"
    /\ UNCHANGED <<flagVars, drain_complete, seqVars, mon, nodeVars, stopCaller, stopIdx>>

\* what the loop over plant_clients has done so far:
\*   ok    : every connected node met got stop_feeding, and every valve the
\*           registry showed on got an off command
\*   missed: a connected node got no stop_feeding, or a valve shown on got no
\*           off command
NodesAfter(old, new) ==
    IF old = "missed" \/ new = "missed" THEN "missed" ELSE "ok"

\* lines 646-686: one plant of the loop over plant_clients; after the last
\* one the call returns
StopNode ==
    /\ stopPc = "nodes"
    /\ UNCHANGED <<stops, mixVars, meterVars>>
    /\ LET p == additional_plants[stopIdx] IN
       \E connected \in BOOLEAN, resolved \in BOOLEAN :
         IF ~connected \/ ~resolved
         THEN /\ stopLog' = [stopLog EXCEPT !.nodes =
                               NodesAfter(@, IF connected THEN "missed" ELSE "ok")]
              /\ UNCHANGED realValve
         ELSE \E drain_status \in RegistryStatus, fill_status \in RegistryStatus,
                 closes \in BOOLEAN :
              \E od \in (IF drain_status = "on" THEN ValveCall("off") ELSE {"none"}),
                 of \in (IF fill_status = "on" THEN ValveCall("off") ELSE {"none"}) :
                \* the node's own handler of stop_feeding closes its valves, or not
                /\ realValve' =
                     NodeCloses(NodeCloses(
                         ValveAfter(ValveAfter(realValve, p, "drain", "off", od),
                                    p, "fill", "off", of),
                         p, "drain", closes), p, "fill", closes)
                /\ stopLog' = [stopLog EXCEPT !.nodes =
                                 NodesAfter(@, IF (drain_status = "on" /\ ~Sent(od))
                                                    \/ (fill_status = "on" /\ ~Sent(of))
                                               THEN "missed" ELSE "ok")]
    /\ stopIdx' = stopIdx + 1
    /\ stopPc' = IF stopIdx = Len(additional_plants) THEN "stopped" ELSE "nodes"
    /\ UNCHANGED <<flagVars, drain_complete, seqVars, mon, progress, stopCaller>>

Next ==
    \/ StartFeeding
    \/ SeqLoopHead
    \/ SeqResolve
    \/ SeqSetProgress
    \/ SeqDrainOn
    \/ SeqDrainWait
    \/ SeqDrainSleep
    \/ SeqDrainEval
    \/ SeqDrainConfirm
    \/ SeqFillOn
    \/ SeqFillWait
    \/ SeqFillFail
    \/ SeqFillFailEval
    \/ SeqFillConfirm
    \/ SeqStopReturns
    \/ SeqFinish
    \/ \E i \in MonitorIds : MonActivation(i)
    \/ \E i \in MonitorIds : MonNoneWait(i)
    \/ \E i \in MonitorIds : MonLoop(i)
    \/ StopCall
    \/ StopLocal
    \/ StopNode

Spec == Init /\ [][Next]_vars

\* ---------------------------------------------------------------- fairness
\* eventlet runs every task that is ready, and every network call and sleep of
\* the code comes back (the requests carry timeouts): the sequencer, each
\* monitor and a call of stop_feeding_sequence under way keep taking steps.
\* The operator's calls (StartFeeding, StopCall) are under no such obligation.
SeqStep ==
    \/ SeqLoopHead \/ SeqResolve \/ SeqSetProgress \/ SeqDrainOn \/ SeqDrainWait
    \/ SeqDrainSleep \/ SeqDrainEval \/ SeqDrainConfirm \/ SeqFillOn
    \/ SeqFillWait \/ SeqFillFail \/ SeqFillFailEval \/ SeqFillConfirm
    \/ SeqStopReturns \/ SeqFinish
MonStep(i) == MonActivation(i) \/ MonNoneWait(i) \/ MonLoop(i)
StopStep == StopLocal \/ StopNode

FairSpec ==
    /\ Init /\ [][Next]_vars
    /\ WF_vars(SeqStep)
    /\ \A i \in MonitorIds : WF_vars(MonStep(i))
    /\ WF_vars(StopStep)

\* ------------------------------------------------------------------ claims
RunUnderWay == seqPc \notin {"idle", "done", "raised"}
RunEnded == seqPc \in {"done", "raised"}
StopEnded == stopPc \in {"stopped", "raised"}
MonitorsEnded == \A i \in MonitorIds : mon[i].pc = "none"
InDrainWait == seqPc \in {"drain_wait", "drain_sleep"}

\* C1: after a global stop, once the sequencer and the drain monitors have
\* returned, no valve that the run turned on is left on.
C1_NoValveLeftOn ==
    (stop_feeding_flag /\ StopEnded /\ RunEnded /\ MonitorsEnded)
        => \A x \in Valves : realValve[x] = "off"

\* C2: valves of two different nodes are never commanded on at the same time:
\* at most one node has a valve whose last command was on and that is open.
C2_OneNodeAtATime ==
    Cardinality({p \in Plants : \E v \in ValveKinds : realValve[<<p, v>>] = "on"}) <= 1

\* C3: the sequencer goes on to the fill phase of a node only on a success
\* written by a drain monitor that was spawned for that node in the same run.
C3_FillAfterOwnDrain ==
    [][(seqPc \in {"drain_wait", "drain_eval"} /\ seqPc' = "drain_confirm")
          => (drain_complete.plant = CurPlant /\ drain_complete.run = runNo)]_vars

\* C4: whenever the published phase is not idle, feeding_sequence_active is true.
C4_PhaseImpliesActive ==
    current_feeding_phase # "idle" => feeding_sequence_active

\* C5: when the drain monitor of the current node has ended with success=false
\* and no stop is requested, the sequencer eventually leaves the drain wait
\* (to record the node as failed and go on to the next one).
C5_FailedDrainMovesOn ==
    (InDrainWait /\ mon[seqMon].pc = "none" /\ ~drain_complete.status
       /\ drain_complete.reason \in {"no_flow", "no_activation_flow", "valve_off_failed"}
       /\ ~stop_feeding_flag)
    ~> (~InDrainWait \/ stop_feeding_flag)

\* C6: after the monitor of the current node has reported no_activation_flow,
\* the sequencer eventually turns to the fill step of that node (unless a stop
\* is requested).
C6_NoActivationFlowFills ==
    (InDrainWait /\ drain_complete.reason = "no_activation_flow"
       /\ drain_complete.plant = CurPlant /\ drain_complete.run = runNo
       /\ ~stop_feeding_flag)
    ~> (seqPc = "fill_on" \/ stop_feeding_flag)

\* C7: once the stop flag is set, a poll of any wait loop that finds it set
\* leaves the loop, the sequencer starts no further node, and the run ends.
C7_StopEndsRun ==
    /\ [][stop_feeding_flag =>
            /\ (SeqLoopHead => seqPc' = "finish")
            /\ (SeqDrainWait => seqPc' \in {"drain_eval", "drain_confirm"})
            /\ (SeqDrainConfirm \/ SeqFillWait \/ SeqFillConfirm => seqPc' # seqPc)
            /\ \A i \in MonitorIds : MonLoop(i) => mon'[i].pc = "none"]_vars
    /\ (stop_feeding_flag /\ RunUnderWay) ~> RunEnded
\* a stopped run has ended with a node still waiting
C7_Witness ==
    /\ stop_feeding_flag /\ seqPc = "done" /\ stopCaller = "op"
    /\ Len(remaining_plants) > 0
    /\ MonitorsEnded

C9_StopReachesEveryNode ==
    StopEnded => (stopIdx > Len(additional_plants) /\ stopLog.nodes # "missed")

\* C10: a call of stop_feeding_sequence on a run that is already stopped
\* changes nothing, and no call raises.
C10_StopTwice ==
    [][/\ (StopCall /\ ~feeding_sequence_active) => UNCHANGED vars
       /\ stopPc' # "raised"]_vars

\* ------------------------------------------------------------ claims C11-C20
\* the message list holds an entry of this kind for plant p
Listed(kind, p) == \E k \in 1..Len(message) : message[k] = <<kind, p>>
\* position of plant p in additional_plants
PlantIndex(p) == CHOOSE k \in 1..Len(additional_plants) : additional_plants[k] = p

\* C11: once the reservoir read Empty after a node completed ("Stopped after"
\* that node), the stop flag is set, the sequencer is in its stop call or at
\* the end of the run, and no later node has had its drain valve turned on or
\* a feeding_status call.
C11_EmptyReservoirSparesNext ==
    \A p \in Plants :
      Listed("Stopped after", p) =>
        /\ stop_feeding_flag
        /\ seqPc \in {"stop_call_level", "finish", "done", "raised"}
        /\ \A q \in Plants : PlantIndex(q) > PlantIndex(p) =>
             /\ realValve[<<q, "drain">>] = "off"
             /\ progress[q] = "idle"
\* the run has ended after node A with node B still remaining
C11_Witness ==
    /\ Listed("Stopped after", "A") /\ seqPc = "done"
    /\ completed_plants = <<"A">> /\ remaining_plants = <<"B">>

\* The run of the spec's example: every node resolves, allows feeding and has
\* both valves and a full sensor; the registry is current, so every
\* control_valve call leaves the valve as commanded; the empty sensor triggers
\* during each drain before any other outcome of the monitor, the full sensor
\* is not triggered when the fill begins and triggers during the fill, the node
\* then closes its fill valve; the reservoir is not empty and nobody stops.
HappyStep ==
    /\ ~stop_feeding_flag'
    /\ \A k \in 1..Len(message') : message'[k][1] = "None"
    /\ seqPc' \notin {"drain_eval", "fill_fail"}
    /\ (seqPc = "drain_on" => realValve'[<<CurPlant, "drain">>] = "on")
    /\ (seqPc = "fill_on" => realValve'[<<CurPlant, "fill">>] = "on" /\ ~sensorInit')
    /\ (seqPc = "fill_wait" /\ seqPc' = "fill_confirm"
          => realValve'[<<CurPlant, "fill">>] = "off")
    /\ \A i \in MonitorIds :
         (mon[i].pc # "none" /\ mon'[i].pc = "none") =>
            /\ drain_complete'.status
            /\ drain_complete'.reason = "sensor_triggered"
            /\ realValve'[<<mon[i].plant, "drain">>] = "off"

HappyNext ==
    \/ StartFeeding /\ HappyStep
    \/ SeqLoopHead /\ HappyStep
    \/ SeqResolve /\ HappyStep
    \/ SeqSetProgress /\ HappyStep
    \/ SeqDrainOn /\ HappyStep
    \/ SeqDrainWait /\ HappyStep
    \/ SeqDrainSleep /\ HappyStep
    \/ SeqDrainConfirm /\ HappyStep
    \/ SeqFillOn /\ HappyStep
    \/ SeqFillWait /\ HappyStep
    \/ SeqFillConfirm /\ HappyStep
    \/ SeqFinish /\ HappyStep
    \/ \E i \in MonitorIds : MonActivation(i) /\ HappyStep
    \/ \E i \in MonitorIds : MonNoneWait(i) /\ HappyStep
    \/ \E i \in MonitorIds : MonLoop(i) /\ HappyStep

HappySpec ==
    /\ Init /\ [][HappyNext]_vars
    /\ WF_vars(SeqStep /\ HappyStep)
    /\ \A i \in MonitorIds : WF_vars(MonStep(i) /\ HappyStep)

InList(s, p) == \E k \in 1..Len(s) : s[k] = p

\* C13: the summary returned at the end of a run (the message list joined)
\* names every node the run processed with its outcome, and lists a node that
\* completed its cycle as completed.
C13_SummaryNamesOutcomes ==
    seqPc = "done" =>
      \A p \in Plants :
        /\ InList(completed_plants, p) => Listed("Completed", p)
        /\ ~InList(remaining_plants, p) => \E k \in 1..Len(message) : message[k][2] = p

\* monitor i ends in this step
MonReturns(i) == mon[i].pc # "none" /\ mon'[i].pc = "none"

\* C14 as stated: a monitor that ends with no stop requested and without the
\* empty sensor having triggered (and not on low flow) ends with
\* {success=true, reason=timeout}.
C14_NoTriggerMeansTimeout ==
    [][\A i \in MonitorIds :
         (MonReturns(i) /\ ~stop_feeding_flag
            /\ drain_complete'.reason \notin {"sensor_triggered", "valve_off_failed", "low_flow"})
         => (drain_complete'.status /\ drain_complete'.reason = "timeout")]_vars

\* C14, amended: once the monitoring loop has begun (the first flow reading was
\* at least activation_flow_rate), the loop never polls more than once after
\* max_drain_time has elapsed since its start, and that poll, with the empty
\* sensor not triggered and no stop requested, ends the monitor with
\* {success=true, reason=timeout}; timeout is reported by no other step.
C14_TimeoutAfterLoopStart ==
    [][\A i \in MonitorIds :
         /\ mon[i].pc = "loop" => mon[i].polls <= max_drain_time + 1
         /\ (mon[i].pc = "loop" /\ mon[i].polls > max_drain_time /\ mon'[i] # mon[i]
               /\ ~stop_feeding_flag
               /\ drain_complete'.reason \notin {"sensor_triggered", "valve_off_failed"})
            => (MonReturns(i) /\ drain_complete'.status
                  /\ drain_complete'.reason = "timeout"
                  /\ drain_complete'.plant = mon[i].plant)
         /\ (MonReturns(i) /\ drain_complete'.reason = "timeout")
            => (mon[i].pc = "loop" /\ mon[i].polls > max_drain_time)]_vars
\* a monitor has reported timeout for the node the sequencer is draining
C14_Witness ==
    /\ drain_complete.status /\ drain_complete.reason = "timeout"
    /\ InDrainWait /\ drain_complete.plant = CurPlant /\ ~stop_feeding_flag

\* C15 as stated: with the drain flow reading 0 from the end of the activation
\* delay on, the monitor goes on to the low-flow watch: the activation check
\* on the reading 0 does not end it.
C15_ZeroFlowReachesLowFlow ==
    [][\A i \in MonitorIds : MonActivationOn(i, 0) => mon'[i].pc = "loop"]_vars

\* C15, amended: once the monitoring loop has begun, a poll that reads a flow
\* below min_flow_rate (rate 0 or no reading), with the empty sensor not
\* triggered, no stop requested and max_drain_time not exceeded, lengthens
\* the low-flow window by one poll, and the poll that finds the window at
\* min_flow_check_delay ends the monitor with {success=true, reason=low_flow};
\* low_flow is reported by no other step.
C15_LowFlowAfterLoopStart ==
    [][\A i \in MonitorIds :
         LET dur == IF mon[i].low = -1 THEN 0 ELSE mon[i].low IN
         /\ \A f \in {-1, 0} :
              (MonLoopOn(i, FALSE, f) /\ ~stop_feeding_flag /\ mon[i].polls <= max_drain_time)
              => IF dur >= min_flow_check_delay
                 THEN /\ MonReturns(i) /\ drain_complete'.status
                      /\ drain_complete'.reason = "low_flow"
                      /\ drain_complete'.plant = mon[i].plant
                 ELSE mon'[i].pc = "loop" /\ mon'[i].low = dur + 1
         /\ (MonReturns(i) /\ drain_complete'.reason = "low_flow")
            => (mon[i].pc = "loop" /\ dur >= min_flow_check_delay)]_vars
\* a monitor has reported low_flow for the node the sequencer is draining
C15_Witness ==
    /\ drain_complete.status /\ drain_complete.reason = "low_flow"
    /\ InDrainWait /\ drain_complete.plant = CurPlant /\ ~stop_feeding_flag

\* the monitor is about to read the empty sensor for the first time (line 198
\* or line 234): it has seen no value of the sensor yet
FirstSensorRead(i) == mon[i].pc \in {"none_wait", "loop"} /\ mon[i].polls = 0

\* C16: the drain monitor reports {true, sensor_triggered} only after it has
\* seen the empty sensor change to triggered: never on the first reading it
\* takes of the sensor, which is all it has seen of it by then.
C16_TriggeredOnlyAfterChange ==
    [][\A i \in MonitorIds :
         (MonReturns(i) /\ drain_complete'.reason = "sensor_triggered")
         => ~FirstSensorRead(i)]_vars

\* C17: each drain monitor invocation fires exactly one outcome.  A step of a
\* monitor that writes the drain result or commands a valve is the step in
\* which the monitor ends; that step writes the result of the monitor's own
\* node, leaves every valve but its node's drain valve alone and can only
\* turn that one off; a monitor that has ended takes no step.
C17_OneOutcomePerMonitor ==
    [][\A i \in MonitorIds :
         MonStep(i) =>
           /\ mon[i].pc # "none"
           /\ (drain_complete' # drain_complete \/ realValve' # realValve) => MonReturns(i)
           /\ MonReturns(i) =>
                /\ drain_complete'.plant = mon[i].plant
                /\ drain_complete'.run = mon[i].run
                /\ drain_complete'.reason # "None"
           /\ \A x \in Valves :
                realValve'[x] # realValve[x] =>
                  (x = <<mon[i].plant, "drain">> /\ realValve'[x] = "off")]_vars
\* a monitor has written its result, its valve is off and it has ended while
\* the sequencer still waits for the drain
C17_Witness ==
    /\ InDrainWait /\ drain_complete.reason # "None"
    /\ drain_complete.plant = CurPlant /\ drain_complete.run = runNo
    /\ mon[seqMon].pc = "none"
    /\ realValve[<<CurPlant, "drain">>] = "off"

\* C18: wait_for_sensor returns success only on a reading that equals the
\* expected value (triggered) and differs from the value read when the wait
\* began; when the sensor already held the expected value at the beginning,
\* no iteration of the wait yields success, whatever it reads.
C18_SuccessNeedsChange ==
    [][\A current_triggered \in BOOLEAN :
         SeqFillWaitOn(current_triggered) =>
           /\ seqPc' = "fill_confirm" =>
                (current_triggered = TRUE /\ current_triggered # sensorInit)
           /\ sensorInit = TRUE => seqPc' # "fill_confirm"]_vars
\* the wait for the full sensor has just returned success
C18_Witness ==
    /\ seqPc = "fill_confirm" /\ waitPolls = 0
    /\ ~stop_feeding_flag /\ current_feeding_phase = "fill"

\* C19: after the full sensor triggered, the wait for the registry to show the
\* fill valve off is bounded: it takes fewer than ValveOffPolls further polls.
\* When it ends without the confirmation, the same step calls
\* control_valve(fill, 'off') (a command that is sent turns the valve off),
\* lists the node as failed and passes to the next node of the list.
C19_FillConfirmBounded ==
    [][seqPc = "fill_confirm" =>
         /\ waitPolls < ValveOffPolls
         /\ seqPc' = "fill_confirm" => waitPolls' \in {waitPolls, waitPolls + 1}
         /\ (seqPc' # "fill_confirm" /\ completed_plants' = completed_plants) =>
              /\ seqPc' = "loop_head" /\ seqIdx' = seqIdx + 1
              /\ message' = Append(message, <<"Failed", CurPlant>>)
              /\ ~InList(remaining_plants', CurPlant)
              /\ \E o \in ValveCall("off") : SeqFillNotOff(o)
         /\ \A o \in ValveCall("off") :
              (SeqFillNotOff(o) /\ Sent(o)) => realValve'[<<CurPlant, "fill">>] = "off"]_vars
\* the last poll of the wait is due, no stop was requested and the fill valve
\* is still on
C19_Witness ==
    /\ seqPc = "fill_confirm" /\ waitPolls = ValveOffPolls - 1
    /\ ~stop_feeding_flag /\ realValve[<<CurPlant, "fill">>] = "on"

\* the fill of p was interrupted by a stop: the entry of line 512, which
\* leaves p in remaining_plants (the entry of line 406 removes it)
StoppedInFill(p) == Listed("Stopped", p) /\ InList(remaining_plants, p)

\* C20: when the wait for the full sensor has failed, control_valve(fill,
\* 'off') is called (a command that is sent turns the valve off).  Without a
\* stop request the node, and only it, is then listed as failed and the loop
\* passes to the next node; with a stop request the node is listed as stopped
\* and from then on the run starts no further node: it is at the stop call,
\* at the loop head with the stop flag set, or at its end.
C20_FillFailure ==
    /\ [][/\ \A o \in ValveCall("off") :
               SeqFillFailOn(o) =>
                 /\ Sent(o) => realValve'[<<CurPlant, "fill">>] = "off"
                 /\ \A x \in Valves : x # <<CurPlant, "fill">> => realValve'[x] = realValve[x]
          /\ (seqPc = "fill_fail_eval" /\ seqPc' # seqPc) =>
               IF ~stop_feeding_flag
               THEN /\ message' = Append(message, <<"Failed", CurPlant>>)
                    /\ remaining_plants' = Remove(remaining_plants, CurPlant)
                    /\ seqPc' = "loop_head" /\ seqIdx' = seqIdx + 1
                    /\ ~stop_feeding_flag'
               ELSE /\ message' = Append(message, <<"Stopped", CurPlant>>)
                    /\ remaining_plants' = remaining_plants
                    /\ seqPc' \in {"stop_call_fill", "loop_head"}]_vars
    /\ [](\A p \in Plants :
            StoppedInFill(p) =>
              /\ seqPc \in {"stop_call_fill", "loop_head", "finish", "done", "raised"}
              /\ seqPc = "loop_head" => stop_feeding_flag
              /\ \A q \in Plants : PlantIndex(q) > PlantIndex(p) => ~InList(completed_plants, q))
\* the run has ended after a stop during the fill of A; B was not processed
C20_Witness ==
    /\ StoppedInFill("A") /\ seqPc = "done"
    /\ remaining_plants = <<"A", "B">> /\ completed_plants = <<>>
    /\ Len(message) = 1

\* ================================================= monitor_feed_mixing
\* The mixing regulator (src/services/feed_mixing_service.py:124-365) runs
\* beside the sequencer.  Of the sequencer's state it reads only
\* app.config['feeding_sequence_active'] (lines 103, 139, 275); it writes
\* nothing the sequencer reads, so the sequencer's specifications above are
\* what they are without it.  stop_mixing_flag is set nowhere in the source
\* and stays False.  The relay ports are configured, plant_data holds a node
\* and nutrient_concentration is positive; a command either takes effect and
\* returns True or raises inside the relay service and returns False, leaving
\* the component as it was; the off commands are taken to succeed.  The
\* except branch (350-365) is not followed.
feedingVars == <<flagVars, drain_complete, seqVars, mon, nodeVars, stopVars, stops>>
mixLocals == <<feed_valve_on, fresh_valve_on, pump_on,
               plant_ip, initial_full_sensor_triggered, state_changed, mixPolls, mixSawOther>>
\* what the regulator could see of the sequencer if it looked: the run, the
\* published phase and the current node
SeqToken == <<runNo, current_feeding_phase, current_plant_ip>>

\* lines 208-218 with nutrient_concentration > 0
target_nutrient == system_volume \div (nutrient_concentration + 1)
target_fresh == system_volume - target_nutrient

\* the off commands of the components whose local flag is set (lines 266-271
\* and 340-345)
OffCmds == {Cmd(c, "off") : c \in
              {x \in Components : \/ x = "feed" /\ feed_valve_on
                                  \/ x = "pump" /\ pump_on
                                  \/ x = "fresh" /\ fresh_valve_on}}
RelayAfterOff(cmds) ==
    [c \in Components |-> IF Cmd(c, "off") \in cmds THEN "off" ELSE relay[c]]

MixCheck_NoCleanup ==
    /\ mixPc = "top"
    /\ IF ~feeding_sequence_active
       THEN /\ mixCmds' = {}
            /\ mixOffIn' = SeqToken
            /\ mixPc' = "sleep"
            /\ UNCHANGED <<mixLocals, mixDoneIn, relay>>
       ELSE \E first \in Plants, triggered \in BOOLEAN :
              /\ mixPc' = "start"
              /\ plant_ip' = first
              /\ mixSawOther' = FALSE
              /\ initial_full_sensor_triggered' = triggered
              /\ feed_valve_on' = FALSE
              /\ fresh_valve_on' = FALSE
              /\ pump_on' = FALSE
              /\ state_changed' = FALSE
              /\ mixPolls' = 0
              /\ mixCmds' = {}
              /\ UNCHANGED <<relay, mixDoneIn, mixOffIn>>
    /\ UNCHANGED <<feedingVars, meterVars>>

\* lines 137-228: the top of the regulator's loop.  With no run active it
\* switches everything off and goes to sleep; else it takes the first node of
\* plant_data as its plant_ip (line 193: the registry has its nodes in the
\* order in which they first reported, so any of them can be the first),
\* reads that node's full sensor and goes on to start mixing.
MixCheck ==
    /\ mixPc = "top"
    /\ IF ~feeding_sequence_active
       THEN /\ mixCmds' = {Cmd(c, "off") : c \in Components}
            /\ relay' = [c \in Components |-> "off"]
            /\ mixOffIn' = SeqToken
            /\ mixPc' = "sleep"
            /\ UNCHANGED <<mixLocals, mixDoneIn>>
       ELSE \E first \in Plants, triggered \in BOOLEAN :
              /\ mixPc' = "start"
              /\ plant_ip' = first
              /\ mixSawOther' = FALSE
              /\ initial_full_sensor_triggered' = triggered
              /\ feed_valve_on' = FALSE
              /\ fresh_valve_on' = FALSE
              /\ pump_on' = FALSE
              /\ state_changed' = FALSE
              /\ mixPolls' = 0
              /\ mixCmds' = {}
              /\ UNCHANGED <<relay, mixDoneIn, mixOffIn>>
    /\ UNCHANGED <<feedingVars, meterVars>>

\* line 155: eventlet.sleep(1) of the inactive branch, then `continue`
MixSleep ==
    /\ mixPc = "sleep"
    /\ mixPc' = "top"
    /\ mixCmds' = {}
    /\ UNCHANGED <<mixLocals, relay, mixDoneIn, mixOffIn>>
    /\ UNCHANGED <<feedingVars, meterVars>>

\* lines 230-258: the feed relay, the pump and the fresh relay are turned on;
\* feed_ok, pump_ok and fresh_ok are the results of the three calls
MixStartOn(feed_ok, pump_ok, fresh_ok) ==
    /\ mixPc = "start"
    /\ IF ~feed_ok
       THEN /\ mixCmds' = {Cmd("feed", "on")}
            /\ mixPc' = "top"
            /\ UNCHANGED <<relay, feed_valve_on, fresh_valve_on, pump_on>>
       ELSE IF fresh_ok
       THEN /\ mixCmds' = {Cmd("feed", "on"), Cmd("pump", "on"), Cmd("fresh", "on")}
            /\ relay' = [c \in Components |->
                           IF c = "pump" /\ ~pump_ok THEN relay[c] ELSE "on"]
            /\ feed_valve_on' = TRUE
            /\ pump_on' = pump_ok
            /\ fresh_valve_on' = TRUE
            /\ mixPc' = "wait_full"
       ELSE /\ mixCmds' = {Cmd("feed", "on"), Cmd("pump", "on"), Cmd("fresh", "on"),
                           Cmd("feed", "off")}
                            \cup (IF pump_ok THEN {Cmd("pump", "off")} ELSE {})
            /\ relay' = [c \in Components |->
                           IF c = "feed" \/ (c = "pump" /\ pump_ok) THEN "off"
                           ELSE relay[c]]
            /\ feed_valve_on' = TRUE
            /\ pump_on' = pump_ok
            /\ fresh_valve_on' = FALSE
            /\ mixPc' = "top"
    /\ UNCHANGED <<plant_ip, initial_full_sensor_triggered, state_changed,
                   mixPolls, mixDoneIn, mixOffIn, mixSawOther>>
    /\ UNCHANGED <<feedingVars, meterVars>>

MixStart ==
    \E feed_ok \in BOOLEAN, pump_ok \in BOOLEAN, fresh_ok \in BOOLEAN :
      MixStartOn(feed_ok, pump_ok, fresh_ok)

\* wait_for_full_sensor (lines 88-122), one iteration of its loop on the
\* reading current_triggered: "true", "false" or "again" (eventlet.sleep(1))
wait_for_full_sensor(current_triggered, expected_triggered) ==
    IF ~feeding_sequence_active THEN "false"
    ELSE IF /\ current_triggered = expected_triggered
            /\ (initial_full_sensor_triggered # expected_triggered \/ state_changed)
    THEN "true"
    ELSE IF mixPolls + 1 >= FullSensorPolls THEN "false"
    ELSE "again"

\* lines 261-273: the wait for the full sensor to read not triggered, one
\* iteration on the reading current_triggered
MixWaitFullOn(current_triggered) ==
    /\ mixPc = "wait_full"
    /\   LET r == wait_for_full_sensor(current_triggered, FALSE) IN
         /\ mixPc' = CASE r = "true" -> "loop" [] r = "false" -> "top" [] OTHER -> mixPc
         /\ mixPolls' = IF r = "again" THEN mixPolls + 1 ELSE 0
         /\ state_changed' = IF r = "again" THEN (state_changed \/ ~current_triggered)
                             ELSE FALSE
         /\ mixCmds' = IF r = "false" THEN OffCmds ELSE {}
         /\ relay' = IF r = "false" THEN RelayAfterOff(OffCmds) ELSE relay
         /\ mixDoneIn' = IF r = "false" THEN SeqToken ELSE mixDoneIn
         /\ mixSawOther' = IF r = "again" THEN (mixSawOther \/ current_triggered)
                           ELSE FALSE
    /\ UNCHANGED <<feed_valve_on, fresh_valve_on, pump_on, plant_ip,
                   initial_full_sensor_triggered, mixOffIn>>
    /\ UNCHANGED <<feedingVars, meterVars>>

MixWaitFull == \E current_triggered \in BOOLEAN : MixWaitFullOn(current_triggered)

\* the volumes the regulator reads from the feed and the fresh meter
NutrientReadings == {0, 1, 2}
FreshReadings == {0, 3, 4}

\* lines 275-338: one iteration of the mixing loop on the readings
\* nutrient_volume, fresh_volume and full_sensor_triggered; fresh_ok is the
\* result of turning the fresh relay on again (line 320).  current_ratio is
\* fresh_volume / nutrient_volume, infinite for nutrient_volume = 0.
MixLoopOn(nutrient_volume, fresh_volume, full_sensor_triggered, fresh_ok) ==
    /\ mixPc = "loop"
    /\ IF \/ ~feeding_sequence_active
          \/ nutrient_volume + fresh_volume >= system_volume
          \/ ~full_sensor_triggered
       THEN /\ mixPc' = "end"
            /\ mixCmds' = {}
            /\ UNCHANGED <<relay, feed_valve_on, fresh_valve_on, pump_on>>
       ELSE LET below == nutrient_volume > 0
                           /\ fresh_volume < nutrient_concentration * nutrient_volume
                above == nutrient_volume = 0
                           \/ fresh_volume > nutrient_concentration * nutrient_volume
                pause == below /\ fresh_valve_on
                resume == ~pause /\ above /\ ~fresh_valve_on
                fresh1 == IF pause THEN FALSE
                          ELSE IF resume /\ fresh_ok THEN TRUE ELSE fresh_valve_on
                feedOff == nutrient_volume >= target_nutrient /\ feed_valve_on
                freshOff == fresh_volume >= target_fresh /\ fresh1
            IN
            /\ mixPc' = "loop"
            /\ mixCmds' = (IF pause \/ freshOff THEN {Cmd("fresh", "off")} ELSE {})
                          \cup (IF resume THEN {Cmd("fresh", "on")} ELSE {})
                          \cup (IF feedOff THEN {Cmd("feed", "off"), Cmd("pump", "off")}
                                ELSE {})
            /\ relay' = [c \in Components |->
                           IF c = "fresh"
                           THEN (IF pause \/ freshOff THEN "off"
                                 ELSE IF resume /\ fresh_ok THEN "on" ELSE relay[c])
                           ELSE IF feedOff THEN "off" ELSE relay[c]]
            /\ fresh_valve_on' = (fresh1 /\ ~freshOff)
            /\ feed_valve_on' = (feed_valve_on /\ ~feedOff)
            /\ pump_on' = (pump_on /\ ~feedOff)
    /\ UNCHANGED <<plant_ip, initial_full_sensor_triggered, state_changed,
                   mixPolls, mixDoneIn, mixOffIn, mixSawOther>>
    /\ UNCHANGED <<feedingVars, meterVars>>

MixLoop ==
    \E nutrient_volume \in NutrientReadings, fresh_volume \in FreshReadings,
       full_sensor_triggered \in BOOLEAN, fresh_ok \in BOOLEAN :
      MixLoopOn(nutrient_volume, fresh_volume, full_sensor_triggered, fresh_ok)

\* lines 340-348: after the loop, what is still on is turned off; the outer
\* loop starts over without a sleep
MixEnd ==
    /\ mixPc = "end"
    /\ mixCmds' = OffCmds
    /\ relay' = RelayAfterOff(OffCmds)
    /\ mixPc' = "top"
    /\ mixDoneIn' = SeqToken
    /\ UNCHANGED <<mixLocals, mixOffIn>>
    /\ UNCHANGED <<feedingVars, meterVars>>

MixStep == MixCheck \/ MixSleep \/ MixStart \/ MixWaitFull \/ MixLoop \/ MixEnd

\* the regulator beside the sequencer's example run
MixNext ==
    \/ HappyNext
    \/ MixCheck
    \/ MixSleep
    \/ MixStart
    \/ MixWaitFull
    \/ MixLoop
    \/ MixEnd

MixSpec == Init /\ [][MixNext]_vars

\* ------------------------------------------------------ claims C21-C25
\* the regulator's step commands component c on
TurnsOn(c) == MixStep /\ Cmd(c, "on") \in mixCmds'

\* C21: the mixing regulator turns on the feed pump, the feed relay or the
\* fresh relay only while the published phase is fill and a current node is
\* selected, never during a drain phase or while the phase is idle.
C21_OnOnlyInFill ==
    [][\A c \in Components :
         TurnsOn(c) =>
           (current_feeding_phase = "fill" /\ current_plant_ip # NoPlant)]_vars

\* C22: within one fill phase of one node the regulator activates at most
\* once: after it has completed or stopped mixing in a fill phase, it does not
\* turn a component on again in that fill phase (same run, same node, phase
\* unchanged since).
C22_ActivatesOncePerFill ==
    [][\A c \in Components :
         (TurnsOn(c) /\ current_feeding_phase = "fill") => mixDoneIn # SeqToken]_vars

\* C23: with system_volume = 6 and nutrient_concentration = 2 the feed target
\* is 6/(2+1) = 2; an iteration of the mixing loop that reads a feed volume of
\* at least 2 while the feed relay is still on, and goes through the loop
\* body, commands the feed relay and the pump off and sends no command to the
\* fresh relay.
C23_FeedTargetLeavesFresh ==
    /\ [](target_nutrient = 2)
    /\ [][\A n \in NutrientReadings, f \in FreshReadings,
            full \in BOOLEAN, ok \in BOOLEAN :
            (MixLoopOn(n, f, full, ok) /\ mixPc' = "loop"
               /\ n >= target_nutrient /\ feed_valve_on)
            => /\ {Cmd("feed", "off"), Cmd("pump", "off")} \subseteq mixCmds'
               /\ \A a \in {"on", "off"} : Cmd("fresh", a) \notin mixCmds']_vars

\* C24: a start of mixing in which turning on the feed relay, the pump or the
\* fresh relay fails is abandoned (the regulator goes back to the top of its
\* loop) and leaves the feed relay, the pump and the fresh relay off.
C24_FailedStartLeavesAllOff ==
    [][\A feed_ok \in BOOLEAN, pump_ok \in BOOLEAN, fresh_ok \in BOOLEAN :
         (MixStartOn(feed_ok, pump_ok, fresh_ok)
            /\ ~(feed_ok /\ pump_ok /\ fresh_ok))
         => /\ mixPc' = "top"
            /\ \A c \in Components : relay'[c] = "off"]_vars

\* C25: with no run active, the regulator's poll sends the off command to
\* the feed relay, the fresh relay and the pump the first time it sees the
\* sequencer where it now stands, and sends no command in a later poll in
\* which the sequencer still stands where the previous inactive poll saw it.
C25_OffOncePerTransition ==
    [][(MixCheck /\ ~feeding_sequence_active)
         => mixCmds' = (IF mixOffIn = SeqToken THEN {}
                        ELSE {Cmd(c, "off") : c \in Components})]_vars

\* C26: the two waits are bounded.  An iteration of wait_for_valve_off
\* (after the drain and after the fill) finds fewer than ValveOffPolls polls
\* done and either returns or counts one more.  An iteration of
\* wait_for_sensor finds fewer than SensorPolls polls done in fewer than
\* SensorRetries attempts and either returns, counts one more poll of the
\* same attempt, or (the attempt has timed out and is not the last) sleeps
\* and starts the next attempt; the last poll of the last attempt returns,
\* and with success only on a triggered reading.
C26_WaitsBounded ==
    [][/\ (SeqDrainConfirm \/ SeqFillConfirm) =>
            /\ waitPolls < ValveOffPolls
            /\ seqPc' = seqPc => waitPolls' = waitPolls + 1
       /\ \A current_triggered \in BOOLEAN :
            SeqFillWaitOn(current_triggered) =>
              /\ waitPolls < SensorPolls /\ sensorAttempt < SensorRetries
              /\ seqPc' = "fill_wait" =>
                   \/ /\ waitPolls' = waitPolls + 1
                      /\ sensorAttempt' = sensorAttempt
                   \/ /\ waitPolls = SensorPolls - 1 /\ waitPolls' = 0
                      /\ sensorAttempt' = sensorAttempt + 1
                      /\ sensorAttempt' < SensorRetries
              /\ (waitPolls = SensorPolls - 1 /\ sensorAttempt = SensorRetries - 1) =>
                   /\ seqPc' \in {"fill_confirm", "fill_fail"}
                   /\ seqPc' = "fill_confirm" => current_triggered]_vars
\* the last poll of the last attempt of wait_for_sensor is due and no stop
\* was requested
C26_Witness ==
    /\ seqPc = "fill_wait" /\ ~stop_feeding_flag
    /\ waitPolls = SensorPolls - 1 /\ sensorAttempt = SensorRetries - 1

\* C27: a node whose address does not resolve, that does not allow remote
\* feeding or that is offline is passed over when the sequencer comes to it:
\* the sequencer goes on to the next node without the feeding_status call
\* (and so without any valve command) and lists the node as skipped.
C27_UnreachableSkipped ==
    [][\A resolved \in BOOLEAN, allowed \in BOOLEAN, is_online \in BOOLEAN :
         (SeqResolveOn(resolved, allowed, is_online)
            /\ ~(resolved /\ allowed /\ is_online))
         => /\ seqPc' = "loop_head"
            /\ realValve' = realValve
            /\ message' = Append(message, <<"Skipped", CurPlant>>)]_vars

\* C30: while stop_feeding_flag is set no drain or fill valve is turned on:
\* no step taken with the flag set leaves a valve on that was not on before.
C30_NoOnAfterStop ==
    [][\A p \in Plants, v \in {"drain", "fill"} :
         (realValve[<<p, v>>] # "on" /\ realValve'[<<p, v>>] = "on")
         => ~stop_feeding_flag]_vars

\* ============================================================ flow meters
\* The fresh and the drain flow reader (fresh_flow_service.py:13-47,
\* src/api/drain_flow.py:13-47) and the calibration setters.  The feed API
\* (src/api/feed_flow.py) keeps its own calibration_factor.  The meters share
\* nothing with the sequencer but reset_total, which the sequencer calls at
\* the head of its loop (lines 314-316); here reset_total is free to happen
\* at any time.

\* line 38, flow_rate = pulse_count / CALIBRATION_FACTOR, and line 45,
\* flow_rate / 60, in volume units; the quotient has the sign of the factor.
\* A factor of 0 raises ZeroDivisionError.
FlowVolume(pulse_count, factor) ==
    IF factor > 0 THEN (pulse_count * DefaultFactor) \div factor
    ELSE 0 - ((pulse_count * DefaultFactor) \div (0 - factor))

\* lines 23-47: one pass of the reader's loop, a window with pulse_count
\* pulses.  The ZeroDivisionError of line 38 is caught at line 46 and the
\* total is left as it is.
flow_reader(meter, pulse_count) ==
    /\ LET factor == CALIBRATION_FACTOR[meter] IN
       IF factor = 0
       THEN UNCHANGED total_volume
       ELSE LET total == total_volume[meter] + FlowVolume(pulse_count, factor) IN
            /\ total \in (0 - MaxVolume)..MaxVolume
            /\ total_volume' = [total_volume EXCEPT ![meter] = total]
    /\ UNCHANGED <<CALIBRATION_FACTOR, calibration_factor>>
    /\ UNCHANGED <<feedingVars, mixVars>>

\* lines 57-62
reset_total(meter) ==
    /\ total_volume' = [total_volume EXCEPT ![meter] = 0]
    /\ UNCHANGED <<CALIBRATION_FACTOR, calibration_factor>>
    /\ UNCHANGED <<feedingVars, mixVars>>

\* the meters that have a setter: src/api/feed_flow.py:8-12 and
\* src/api/drain_flow.py:67-71; the fresh meter has none
MetersWithSetter == {"feed", "drain"}

\* set_calibration_factor of the feed API (raises ValueError on a value that
\* is not positive, leaving calibration_factor as it is) and of the drain
\* meter (CALIBRATION_FACTOR = float(value))
set_calibration_factor(meter, value) ==
    /\ meter \in MetersWithSetter
    /\ IF meter = "feed"
       THEN /\ calibration_factor' = IF value <= 0 THEN calibration_factor ELSE value
            /\ UNCHANGED CALIBRATION_FACTOR
       ELSE /\ CALIBRATION_FACTOR' = [CALIBRATION_FACTOR EXCEPT ![meter] = value]
            /\ UNCHANGED calibration_factor
    /\ UNCHANGED total_volume
    /\ UNCHANGED <<feedingVars, mixVars>>

FlowReads == \E meter \in Meters, pulse_count \in PulseCounts : flow_reader(meter, pulse_count)
Resets == \E meter \in Meters : reset_total(meter)
SetsFactor ==
    \E meter \in MetersWithSetter, value \in FactorValues :
      set_calibration_factor(meter, value)

MeterNext ==
    \/ FlowReads
    \/ Resets
    \/ SetsFactor

MeterSpec == Init /\ [][MeterNext]_vars

\* C28: the cumulative volume of each meter is never negative, and no step
\* but a reset_total of that meter lowers it, whatever the pulse counts and
\* whatever factor the meter's setter was given and took.
C28_VolumeMonotone ==
    [][\A meter \in Meters :
         /\ total_volume'[meter] >= 0
         /\ ~reset_total(meter) => total_volume'[meter] >= total_volume[meter]]_vars

\* C29: a call of set_calibration_factor with a value that is not positive,
\* on any meter that has a setter, leaves that meter's calibration factor,
\* and every other, as it was.
C29_SetterRejectsNonPositive ==
    [][\A meter \in MetersWithSetter, value \in FactorValues :
         (set_calibration_factor(meter, value) /\ value <= 0)
         => UNCHANGED <<CALIBRATION_FACTOR, calibration_factor>>]_vars

\* C31: whenever control_valve(fill, 'off') returns True (the call of line
\* 508, after a failed wait for the full sensor), the fill valve of the
\* node is off, whatever the registry's cached status read.
C31_OffReturnMeansOff ==
    [][\A o \in ValveCall("off") :
         (SeqFillFailOn(o) /\ Returned(o))
         => realValve'[<<CurPlant, "fill">>] = "off"]_vars

\* C32: a drain monitor that outlives its run does not touch the next one:
\* when it returns after start_feeding_sequence was called again, it returns
\* as interrupted, and the sequencer never goes on to the fill of a node on
\* a drain result written by a monitor of an earlier run.
C32_OldMonitorHarmless ==
    /\ [][\A i \in MonitorIds :
            (MonReturns(i) /\ mon[i].run < runNo)
            => (~drain_complete'.status /\ drain_complete'.reason = "interrupted")]_vars
    /\ [][(seqPc \in {"drain_wait", "drain_eval"} /\ seqPc' = "drain_confirm")
            => drain_complete.run = runNo]_vars

\* C33: a poll of the drain monitoring loop that begins with
\* stop_feeding_flag set ends the monitor with the result {False,
\* interrupted}, whatever the empty sensor and the flow meter read.
C33_StopBeatsSensor ==
    [][\A i \in MonitorIds, empty_triggered \in BOOLEAN, current_flow \in FlowReadings :
         (MonLoopOn(i, empty_triggered, current_flow) /\ stop_feeding_flag)
         => /\ MonReturns(i)
            /\ ~drain_complete'.status
            /\ drain_complete'.reason = "interrupted"]_vars

\* C34: when the regulator, with a run active and a node published by the
\* sequencer, picks the node whose system volume gives its feed target and
\* whose full sensor it watches, it picks the published node.
C34_RegulatorFollowsCurrentNode ==
    [][(MixCheck /\ feeding_sequence_active /\ current_plant_ip # NoPlant)
         => plant_ip' = current_plant_ip]_vars

\* C35: with the feed relay on, the regulator gives up mixing or commands the
\* feed relay off only for a reason: in the mixing loop the feed volume has
\* reached target_nutrient, the total has reached system_volume, the full
\* sensor reads triggered or no run is active any more; in the wait for the
\* full sensor it reads triggered or no run is active any more.
C35_FeedKeptOnUntilTarget ==
    [][/\ \A n \in NutrientReadings, f \in FreshReadings,
            full \in BOOLEAN, ok \in BOOLEAN :
            (MixLoopOn(n, f, full, ok) /\ feed_valve_on
               /\ (mixPc' = "end" \/ Cmd("feed", "off") \in mixCmds'))
            => \/ n >= target_nutrient
               \/ n + f >= system_volume
               \/ full
               \/ ~feeding_sequence_active
       /\ \A full \in BOOLEAN :
            (MixWaitFullOn(full) /\ feed_valve_on /\ Cmd("feed", "off") \in mixCmds')
            => (full \/ ~feeding_sequence_active)]_vars

\* C37: wait_for_full_sensor(plant_ip, initial, False) returns True only on
\* a poll that reads the sensor not triggered, after the sensor was seen
\* triggered: at the initial reading or in an earlier poll of the wait.
C37_FullWaitNeedsChange ==
    [][\A current_triggered \in BOOLEAN :
         (MixWaitFullOn(current_triggered) /\ mixPc' = "loop")
         => /\ ~current_triggered
            /\ (initial_full_sensor_triggered \/ mixSawOther)]_vars

\* the regulator beside one run of the sequencer
MixOneRunNext ==
    \/ HappyNext /\ runNo' <= 1
    \/ MixCheck
    \/ MixSleep
    \/ MixStart
    \/ MixWaitFull
    \/ MixLoop
    \/ MixEnd

\* the regulator's greenlet and the sequencer's both get to run
MixFairSpec ==
    /\ Init /\ [][MixOneRunNext]_vars
    /\ WF_vars(MixStep)
    /\ WF_vars(SeqStep /\ HappyStep)
    /\ \A i \in MonitorIds : WF_vars(MonStep(i) /\ HappyStep)

AllCommandedOff == mixCmds = {Cmd(c, "off") : c \in Components}

Reports(p) ==
    {k \in 1..Len(message) :
       message[k][2] = p /\ message[k][1] \in {"Failed", "Skipped", "Stopped"}}
\* the groups plant p is in: completed, reported, remaining
GroupsOf(p) ==
    (IF InList(completed_plants, p) THEN {"completed"} ELSE {})
      \cup (IF Reports(p) # {} THEN {"reported"} ELSE {})
      \cup (IF InList(remaining_plants, p) THEN {"remaining"} ELSE {})

\* C39: when a run has ended, every configured node is in exactly one of the
\* groups completed, reported and remaining, and has at most one report
\* entry.
C39_OneGroupPerNode ==
    seqPc = "done" =>
      \A p \in Plants :
        /\ Cardinality(GroupsOf(p)) = 1
        /\ Cardinality(Reports(p)) <= 1

\* C40: a node on which feeding_in_progress=true was set has had
\* feeding_in_progress=false posted to it by the time the sequencer stands at
\* the head of the loop for a later node, is in the stop call that follows
\* the node, or has ended the run.
C40_ProgressResetBeforeNext ==
    \A p \in Plants :
      progress[p] = "true" =>
        /\ seqPc \notin {"finish", "done", "raised"}
        /\ PlantIndex(p) = seqIdx

\* C36: in the fill wait, a poll that reads the full sensor triggered, in an
\* attempt one of whose earlier polls read it not triggered, makes
\* wait_for_sensor report success when no stop is requested, whatever the
\* sensor read when the wait began.
C36_ChangeSeenMeansSuccess ==
    [][\A current_triggered \in BOOLEAN :
         (/\ SeqFillWaitOn(current_triggered)
          /\ current_triggered /\ fillSawOther /\ ~stop_feeding_flag)
         => seqPc' = "fill_confirm"]_vars
====
